---- MODULE Spec2Model ----
(***************************************************************************)
(* A model of shopmy_scraper.py: the URL canonicaliser (clean_url), the    *)
(* brand inferencer (extract_brand_from_url_and_title), the page harvester *)
(* (scrape_shopmy_collection with retry_with_backoff), the persistence     *)
(* writer (save_to_csv) and main.  Text is modelled as a sequence of       *)
(* one-character strings so that parsing, decoding and prefix tests are    *)
(* computed character by character, as the library code does.              *)
(***************************************************************************)
EXTENDS Integers, Sequences, FiniteSets, TLC

(***************************************************************************)
(* Characters.  The printable ASCII range 0x20..0x7E; Ascii[i] is the      *)
(* character with code 31 + i (code 96 is written out by name).            *)
(***************************************************************************)
Ascii ==
  <<" ", "!", "\"", "#", "$", "%", "&", "'", "(", ")", "*", "+", ",", "-", ".", "/", "0", "1", "2", "3", "4", "5", "6", "7", "8", "9", ":", ";", "<", "=", ">", "?", "@">> \o
  <<"A", "B", "C", "D", "E", "F", "G", "H", "I", "J", "K", "L", "M", "N", "O", "P", "Q", "R", "S", "T", "U", "V", "W", "X", "Y", "Z", "[", "\\", "]", "^", "_">> \o <<"<backtick>">> \o
  <<"a", "b", "c", "d", "e", "f", "g", "h", "i", "j", "k", "l", "m", "n", "o", "p", "q", "r", "s", "t", "u", "v", "w", "x", "y", "z", "{", "|", "}", "~">>

\* The character a byte outside the printable ASCII range decodes to; the
\* inputs drawn below never produce one.
ReplacementChar == "<?>"

IsAscii(c) == \E i \in 1..Len(Ascii) : Ascii[i] = c

Ord(c) == 31 + (CHOOSE i \in 1..Len(Ascii) : Ascii[i] = c)

Chr(n) == IF n \in 32..126 THEN Ascii[n - 31] ELSE ReplacementChar

IsUpper(c) == IsAscii(c) /\ Ord(c) \in 65..90

IsAlpha(c) == IsAscii(c) /\ (Ord(c) \in 65..90 \/ Ord(c) \in 97..122)

IsDigit(c) == IsAscii(c) /\ Ord(c) \in 48..57

\* str.lower() on one character; U+00C3 is the one non-ASCII letter the program
\* holds (in its brand table), written out by name
LowerChar(c) ==
  IF c = "<U+00C3>" THEN "<U+00E3>"
  ELSE IF IsUpper(c) THEN Chr(Ord(c) + 32) ELSE c

\* str.lower()
Lower(s) == [i \in 1..Len(s) |-> LowerChar(s[i])]

(***************************************************************************)
(* With(x, F) is F(x) with x evaluated once: the local variables of the    *)
(* code are bound this way.                                                *)
(***************************************************************************)
With(x, F(_)) == CHOOSE r \in {F(v) : v \in {x}} : TRUE

Min(S) == CHOOSE i \in S : \A j \in S : i <= j

Max(S) == CHOOSE i \in S : \A j \in S : i >= j

(***************************************************************************)
(* str operations used by the program and by urllib.parse.                 *)
(***************************************************************************)
\* s[from:] in 1-based positions
From(s, from) == SubSeq(s, from, Len(s))

\* s.startswith(p)
StartsWith(s, p) == Len(s) >= Len(p) /\ SubSeq(s, 1, Len(p)) = p

\* whether sub occurs in s at position i
OccursAt(s, sub, i) == i >= 1 /\ i + Len(sub) - 1 <= Len(s) /\ SubSeq(s, i, i + Len(sub) - 1) = sub

\* s.find(sub, from), 1-based, 0 when absent
Find(s, sub, from) ==
  With({i \in from..(Len(s) - Len(sub) + 1) : OccursAt(s, sub, i)},
       LAMBDA hits : IF hits = {} THEN 0 ELSE Min(hits))

\* s.rfind(sub), 1-based, 0 when absent
RFind(s, sub) ==
  With({i \in 1..(Len(s) - Len(sub) + 1) : OccursAt(s, sub, i)},
       LAMBDA hits : IF hits = {} THEN 0 ELSE Max(hits))

\* sub in s
Contains(s, sub) == \E i \in 1..(Len(s) - Len(sub) + 1) : OccursAt(s, sub, i)

\* s.split(sep)[-1]
SplitLast(s, sep) ==
  With(RFind(s, sep), LAMBDA i : IF i = 0 THEN s ELSE From(s, i + Len(sep)))

\* s.split(sep): the pieces between the occurrences of sep, left to right;
\* SplitFrom(s, sep, at) is the pieces of s from position at on
RECURSIVE SplitFrom(_, _, _)
SplitFrom(s, sep, at) ==
  With(Find(s, sep, at), LAMBDA i :
    IF i = 0 THEN <<SubSeq(s, at, Len(s))>>
    ELSE <<SubSeq(s, at, i - 1)>> \o SplitFrom(s, sep, i + Len(sep)))

Split(s, sep) == SplitFrom(s, sep, 1)

\* s.replace(a, b) for single characters
ReplaceChar(s, a, b) == [i \in 1..Len(s) |-> IF s[i] = a THEN b ELSE s[i]]

\* s.lstrip(" ")
LStrip(s) ==
  With({i \in 1..Len(s) : s[i] # " "},
       LAMBDA keep : IF keep = {} THEN <<>> ELSE From(s, Min(keep)))

\* s.rstrip(" ")
RStrip(s) ==
  With({i \in 1..Len(s) : s[i] # " "},
       LAMBDA keep : IF keep = {} THEN <<>> ELSE SubSeq(s, 1, Max(keep)))

\* s.strip()
Strip(s) ==
  With({i \in 1..Len(s) : s[i] # " "},
       LAMBDA keep : IF keep = {} THEN <<>> ELSE SubSeq(s, Min(keep), Max(keep)))

\* sep.join(parts); JoinFrom(parts, sep, i) joins parts[i:]
RECURSIVE JoinFrom(_, _, _)
JoinFrom(parts, sep, i) ==
  IF i > Len(parts) THEN <<>>
  ELSE IF i = Len(parts) THEN parts[i]
  ELSE parts[i] \o sep \o JoinFrom(parts, sep, i + 1)

Join(parts, sep) == JoinFrom(parts, sep, 1)

(***************************************************************************)
(* urllib.parse.unquote: each %XX with two hexadecimal digits is replaced  *)
(* by the character with that code; any other % is kept.                   *)
(***************************************************************************)
HexDigits == <<"0", "1", "2", "3", "4", "5", "6", "7", "8", "9", "a", "b", "c", "d", "e", "f">>

IsHex(c) == \E i \in 1..16 : HexDigits[i] = LowerChar(c)

HexVal(c) == (CHOOSE i \in 1..16 : HexDigits[i] = LowerChar(c)) - 1

\* whether an escape %XX starts at position i of s
EscapeAt(s, i) == s[i] = "%" /\ i + 2 <= Len(s) /\ IsHex(s[i + 1]) /\ IsHex(s[i + 2])

\* s[i:] unquoted
RECURSIVE UnquoteFrom(_, _)
UnquoteFrom(s, i) ==
  IF i > Len(s) THEN <<>>
  ELSE IF EscapeAt(s, i)
       THEN <<Chr(16 * HexVal(s[i + 1]) + HexVal(s[i + 2]))>> \o UnquoteFrom(s, i + 3)
       ELSE <<s[i]>> \o UnquoteFrom(s, i + 1)

unquote(s) == With(s, LAMBDA v : UnquoteFrom(v, 1))

(***************************************************************************)
(* urllib.parse.urlsplit and urlparse.  The result carries a field raises, *)
(* TRUE where the library raises ValueError (a netloc with one bracket but *)
(* not the other).                                                         *)
(***************************************************************************)
SchemeChars == {Ascii[i] : i \in {j \in 1..Len(Ascii) : IsAlpha(Ascii[j]) \/ IsDigit(Ascii[j])}} \cup {"+", "-", "."}

uses_params == {<<>>, <<"f", "t", "p">>, <<"h", "d", "l">>, <<"p", "r", "o", "s", "p", "e", "r", "o">>, <<"h", "t", "t", "p">>, <<"i", "m", "a", "p">>, <<"h", "t", "t", "p", "s">>, <<"s", "h", "t", "t", "p">>,
                <<"r", "t", "s", "p">>, <<"r", "t", "s", "p", "s">>, <<"r", "t", "s", "p", "u">>, <<"s", "i", "p">>, <<"s", "i", "p", "s">>, <<"m", "m", "s">>, <<"s", "f", "t", "p">>, <<"t", "e", "l">>}

\* lines 486-492 of urlsplit: the scheme, lower-cased, and what follows its colon
SplitScheme(url) ==
  With(Find(url, <<":">>, 1), LAMBDA i :
    IF i > 1 /\ IsAlpha(url[1]) /\ \A k \in 1..(i - 1) : url[k] \in SchemeChars
    THEN [scheme |-> Lower(SubSeq(url, 1, i - 1)), rest |-> From(url, i + 1)]
    ELSE [scheme |-> <<>>, rest |-> url])

\* _splitnetloc(url, 2): the netloc after // up to the first of / ? #
SplitNetloc(url) ==
  IF StartsWith(url, <<"/", "/">>)
  THEN With({i \in 3..Len(url) : url[i] \in {"/", "?", "#"}}, LAMBDA hits :
         With(IF hits = {} THEN Len(url) + 1 ELSE Min(hits), LAMBDA delim :
           [netloc |-> SubSeq(url, 3, delim - 1), rest |-> From(url, delim)]))
  ELSE [netloc |-> <<>>, rest |-> url]

\* url.split(c, 1): what is before the first c, and what is after it
Cut(url, c) ==
  With(Find(url, <<c>>, 1), LAMBDA i :
    IF i > 0 THEN [before |-> SubSeq(url, 1, i - 1), after |-> From(url, i + 1)]
    ELSE [before |-> url, after |-> <<>>])

urlsplit(url0) ==
  With(LStrip(url0), LAMBDA url :
  With(SplitScheme(url), LAMBDA s :
  With(SplitNetloc(s.rest), LAMBDA n :
  With(Cut(n.rest, "#"), LAMBDA f :
  With(Cut(f.before, "?"), LAMBDA q :
    [scheme |-> s.scheme, netloc |-> n.netloc, path |-> q.before, query |-> q.after,
     fragment |-> f.after,
     raises |-> Contains(n.netloc, <<"[">>) # Contains(n.netloc, <<"]">>)])))))

\* _splitparams(url)[0]: the path without its ;parameters
SplitParamsPath(url) ==
  With(RFind(url, <<"/">>), LAMBDA slash :
  With(IF slash > 0 THEN Find(url, <<";">>, slash) ELSE Find(url, <<";">>, 1), LAMBDA i :
    IF i = 0 THEN url ELSE SubSeq(url, 1, i - 1)))

urlparse(url) ==
  With(urlsplit(url), LAMBDA r :
    IF r.scheme \in uses_params /\ Contains(r.path, <<";">>)
    THEN [r EXCEPT !.path = SplitParamsPath(r.path)]
    ELSE r)

(***************************************************************************)
(* urllib.parse.parse_qs: the name=value fields between & signs, skipping  *)
(* a field with no = or with an empty value, + read as a space and both    *)
(* sides unquoted; the result maps each name, in first-seen order, to the  *)
(* list of its values.                                                     *)
(***************************************************************************)
\* one field: the pair it yields, if any
ParseField(nv) ==
  With(Find(nv, <<"=">>, 1), LAMBDA e :
    IF e = 0 \/ e = Len(nv) THEN <<>>
    ELSE <<[k |-> unquote(ReplaceChar(SubSeq(nv, 1, e - 1), "+", " ")),
            v |-> unquote(ReplaceChar(From(nv, e + 1), "+", " "))]>>)

\* the pairs of fields[i:]
RECURSIVE ParseFields(_, _)
ParseFields(fields, i) ==
  IF i > Len(fields) THEN <<>>
  ELSE With(fields[i], LAMBDA nv : ParseField(nv)) \o ParseFields(fields, i + 1)

parse_qsl(query) ==
  IF Len(query) = 0 THEN <<>>
  ELSE With(Split(query, <<"&">>), LAMBDA fields : ParseFields(fields, 1))

\* the names of pairs in first-seen order, then each with its values in order
parse_qs(query) ==
  With(parse_qsl(query), LAMBDA pairs :
  With({i \in 1..Len(pairs) : \A j \in 1..(i - 1) : pairs[j].k # pairs[i].k}, LAMBDA firsts :
    [n \in 1..Cardinality(firsts) |->
       With(CHOOSE i \in firsts : Cardinality({j \in firsts : j < i}) = n - 1, LAMBDA i :
         [k |-> pairs[i].k,
          v |-> With({j \in 1..Len(pairs) : pairs[j].k = pairs[i].k}, LAMBDA same :
                  [m \in 1..Cardinality(same) |->
                     pairs[CHOOSE j \in same : Cardinality({l \in same : l < j}) = m - 1].v])])]))

\* name in params
HasParam(params, name) == \E i \in 1..Len(params) : params[i].k = name

\* params[name][0]
FirstValue(params, name) == params[CHOOSE i \in 1..Len(params) : params[i].k = name].v[1]

(***************************************************************************)
(* clean_url.  The three affiliate wrappers are recognised by substring;   *)
(* a ValueError from urlparse is caught by the bare except, which returns  *)
(* url as it stands at that point.                                         *)
(***************************************************************************)
ShopmyRedirect == <<"a", "p", "i", ".", "s", "h", "o", "p", "m", "y", ".", "u", "s", "/", "a", "p", "i", "/", "r", "e", "d", "i", "r", "e", "c", "t", "_", "c", "l", "i", "c", "k">>

AnrdoezrsClick == <<"a", "n", "r", "d", "o", "e", "z", "r", "s", ".", "n", "e", "t", "/", "c", "l", "i", "c", "k">>

LinksynergyDeeplink == <<"c", "l", "i", "c", "k", ".", "l", "i", "n", "k", "s", "y", "n", "e", "r", "g", "y", ".", "c", "o", "m", "/", "d", "e", "e", "p", "l", "i", "n", "k">>

EssentialNames == {<<"v", "a", "r", "i", "a", "n", "t">>, <<"c", "o", "l", "o", "r">>, <<"s", "i", "z", "e">>}

\* lines 23-26 and 32-35: the target is read from the query parameter name
UnwrapParam(url, name) ==
  With(urlparse(url), LAMBDA parsed :
    IF parsed.raises THEN [raises |-> TRUE, url |-> url]
    ELSE With(parse_qs(parsed.query), LAMBDA params :
           IF HasParam(params, name)
           THEN [raises |-> FALSE, url |-> unquote(FirstValue(params, name))]
           ELSE [raises |-> FALSE, url |-> url]))

\* lines 21-35: the wrapper is unwrapped; raises when urlparse raises there
Unwrap(url) ==
  IF Contains(url, ShopmyRedirect) THEN UnwrapParam(url, <<"u", "r", "l">>)
  ELSE IF Contains(url, AnrdoezrsClick)
  THEN [raises |-> FALSE, url |-> unquote(SplitLast(url, <<"u", "r", "l", "=">>))]
  ELSE IF Contains(url, LinksynergyDeeplink) THEN UnwrapParam(url, <<"m", "u", "r", "l">>)
  ELSE [raises |-> FALSE, url |-> url]

\* lines 46-50: the allow-listed parameters of params[i:], each with its first value
RECURSIVE EssentialParams(_, _)
EssentialParams(params, i) ==
  IF i > Len(params) THEN <<>>
  ELSE IF Lower(params[i].k) \in EssentialNames
       THEN <<params[i].k \o <<"=">> \o params[i].v[1]>> \o EssentialParams(params, i + 1)
       ELSE EssentialParams(params, i + 1)

\* lines 38-53: decode, cut to scheme://netloc/path, re-attach the allow-list
StripTracking(url0) ==
  With(unquote(url0), LAMBDA url :
  With(urlparse(url), LAMBDA parsed :
    IF parsed.raises THEN url
    ELSE With(parsed.scheme \o <<":", "/", "/">> \o parsed.netloc \o parsed.path, LAMBDA base_url :
         With(parse_qs(parsed.query), LAMBDA params :
         With(EssentialParams(params, 1), LAMBDA essential_params :
           IF Len(essential_params) > 0
           THEN base_url \o <<"?">> \o Join(essential_params, <<"&">>)
           ELSE base_url)))))

clean_url(url0) ==
  With(url0, LAMBDA url :
  With(Unwrap(url), LAMBDA u :
    IF u.raises THEN u.url ELSE StripTracking(u.url)))

(***************************************************************************)
(* extract_brand_from_url_and_title.  known_brands in the order the dict   *)
(* literal lists it, which is the order both loops visit it in.            *)
(***************************************************************************)
\* Python's None, as a value no text equals
None == <<"<None>">>

\* the outcome of a call that raises urlparse's ValueError
ValueError == <<"<ValueError>">>

\* the sentinel of a field that could not be extracted
NA == <<"N", "/", "A">>

known_brands == <<
  [key |-> <<"s", "t", "e", "l", "l", "a", "-", "m", "c", "c", "a", "r", "t", "n", "e", "y">>, name |-> <<"S", "t", "e", "l", "l", "a", " ", "M", "c", "C", "a", "r", "t", "n", "e", "y">>],
  [key |-> <<"l", "c", "u", "p", "p", "i", "n", "i">>, name |-> <<"L", ".", "C", "u", "p", "p", "i", "n", "i">>],
  [key |-> <<"n", "a", "n", "u", "s", "h", "k", "a">>, name |-> <<"N", "a", "n", "u", "s", "h", "k", "a">>],
  [key |-> <<"h", "a", "v", "a", "i", "a", "n", "a", "s">>, name |-> <<"H", "a", "v", "a", "i", "a", "n", "a", "s">>],
  [key |-> <<"g", "a", "p">>, name |-> <<"G", "a", "p">>],
  [key |-> <<"j", "e", "n", "n", "i", "k", "a", "y", "n", "e">>, name |-> <<"J", "e", "n", "n", "i", " ", "K", "a", "y", "n", "e">>],
  [key |-> <<"a", "r", "i", "t", "z", "i", "a">>, name |-> <<"A", "r", "i", "t", "z", "i", "a">>],
  [key |-> <<"j", "i", "m", "m", "y", "-", "c", "h", "o", "o">>, name |-> <<"J", "i", "m", "m", "y", " ", "C", "h", "o", "o">>],
  [key |-> <<"h", "u", "n", "t", "i", "n", "g", "-", "s", "e", "a", "s", "o", "n">>, name |-> <<"H", "u", "n", "t", "i", "n", "g", " ", "S", "e", "a", "s", "o", "n">>],
  [key |-> <<"c", "e", "s", "t", "a">>, name |-> <<"C", "e", "s", "t", "a", " ", "C", "o", "l", "l", "e", "c", "t", "i", "v", "e">>],
  [key |-> <<"e", "l", "i", "o", "u">>, name |-> <<"<U+00C3>", "<U+2030>">> \o <<"l", "i", "o", "u">>],
  [key |-> <<"r", "e", "f", "o", "r", "m", "a", "t", "i", "o", "n">>, name |-> <<"R", "e", "f", "o", "r", "m", "a", "t", "i", "o", "n">>],
  [key |-> <<"n", "o", "u", "r", "-", "h", "a", "m", "m", "o", "u", "r">>, name |-> <<"N", "o", "u", "r", " ", "H", "a", "m", "m", "o", "u", "r">>],
  [key |-> <<"k", "h", "a", "i", "t", "e">>, name |-> <<"K", "h", "a", "i", "t", "e">>],
  [key |-> <<"s", "t", "a", "u", "d">>, name |-> <<"S", "t", "a", "u", "d">>],
  [key |-> <<"s", "e", "z", "a", "n", "e">>, name |-> <<"S", "e", "z", "a", "n", "e">>],
  [key |-> <<"v", "e", "r", "o", "n", "i", "c", "a", "-", "b", "e", "a", "r", "d">>, name |-> <<"V", "e", "r", "o", "n", "i", "c", "a", " ", "B", "e", "a", "r", "d">>],
  [key |-> <<"t", "o", "r", "y", "-", "b", "u", "r", "c", "h">>, name |-> <<"T", "o", "r", "y", " ", "B", "u", "r", "c", "h">>],
  [key |-> <<"s", "h", "o", "n", "a", "j", "o", "y">>, name |-> <<"S", "h", "o", "n", "a", " ", "J", "o", "y">>],
  [key |-> <<"a", "n", "i", "n", "e", "-", "b", "i", "n", "g">>, name |-> <<"A", "n", "i", "n", "e", " ", "B", "i", "n", "g">>],
  [key |-> <<"s", "a", "i", "n", "t", "-", "l", "a", "u", "r", "e", "n", "t">>, name |-> <<"S", "a", "i", "n", "t", " ", "L", "a", "u", "r", "e", "n", "t">>],
  [key |-> <<"l", "o", "r", "o", "-", "p", "i", "a", "n", "a">>, name |-> <<"L", "o", "r", "o", " ", "P", "i", "a", "n", "a">>],
  [key |-> <<"r", "a", "l", "p", "h", "-", "l", "a", "u", "r", "e", "n">>, name |-> <<"R", "a", "l", "p", "h", " ", "L", "a", "u", "r", "e", "n">>],
  [key |-> <<"l", "e", "s", "e", "t">>, name |-> <<"L", "e", " ", "S", "e", "t">>],
  [key |-> <<"c", "o", "-", "c", "o", "l", "l", "e", "c", "t", "i", "o", "n", "s">>, name |-> <<"C", "O">>] >>

\* the first table entry, in table order, whose key occurs in text; 0 if none
FirstKeyIn(text) ==
  With({i \in 1..Len(known_brands) : Contains(text, known_brands[i].key)},
       LAMBDA hits : IF hits = {} THEN 0 ELSE Min(hits))

\* the first table entry whose display name occurs, case-insensitively, in title
FirstNameIn(title) ==
  With(Lower(title), LAMBDA t :
  With({i \in 1..Len(known_brands) : Contains(t, Lower(known_brands[i].name))},
       LAMBDA hits : IF hits = {} THEN 0 ELSE Min(hits)))

\* lines 99-111: the brand read from the title
BrandFromTitle(title) ==
  IF title # None /\ Len(title) > 0 /\ title # NA
  THEN IF Contains(title, <<"|">>)
       THEN Strip(Split(title, <<"|">>)[1])
       ELSE With(FirstNameIn(title), LAMBDA i : IF i > 0 THEN known_brands[i].name ELSE NA)
  ELSE NA

\* the brand of the first of the two texts that holds a key, else of the title
BrandByPriority(first, second, title) ==
  With(FirstKeyIn(first), LAMBDA i :
    IF i > 0 THEN known_brands[i].name
    ELSE With(FirstKeyIn(second), LAMBDA j :
           IF j > 0 THEN known_brands[j].name ELSE BrandFromTitle(title)))

\* lines 87-97 with the host loop and the path loop in the other order
BrandPathFirst(url, title) ==
  With(urlparse(url), LAMBDA parsed :
  With(Lower(parsed.netloc), LAMBDA parsed_url :
  With(Lower(parsed.path), LAMBDA path :
    IF parsed.raises THEN ValueError ELSE BrandByPriority(path, parsed_url, title))))

extract_brand_from_url_and_title(url, title) ==
  With(urlparse(url), LAMBDA parsed :
  With(Lower(parsed.netloc), LAMBDA parsed_url :
  With(Lower(parsed.path), LAMBDA path :
    IF parsed.raises THEN ValueError ELSE BrandByPriority(parsed_url, path, title))))

(***************************************************************************)
(* retry_with_backoff's defaults and the selector candidates.              *)
(***************************************************************************)
max_retries == 3

initial_delay == 1

selectors == <<<<"[", "c", "l", "a", "s", "s", "*", "=", "\"", "p", "r", "o", "d", "u", "c", "t", "\"", "]">>, <<".", "p", "r", "o", "d", "u", "c", "t", "-", "c", "a", "r", "d">>, <<".", "p", "r", "o", "d", "u", "c", "t", "-", "i", "t", "e", "m">>>>

RECURSIVE Pow2(_)
Pow2(n) == IF n = 0 THEN 1 ELSE 2 * Pow2(n - 1)

\* line 128 with the exponent applied as a factor
BackoffLinear(attempt) == initial_delay * (2 * attempt)

\* line 128: delay = initial_delay * (2 ** attempt)
Backoff(attempt) == initial_delay * Pow2(attempt)

\* line 175 with the comparison loosened to "did not grow"
HeightNotGrown(new_height, last_height) == new_height <= last_height

\* line 175: new_height == last_height
HeightStable(new_height, last_height) == new_height = last_height

(***************************************************************************)
(* The extraction of one product element (lines 186-229).  An element is   *)
(* described by what its probes answer: title and brand are the texts of   *)
(* the fallback chain's elements (None: no such element), img and a say    *)
(* whether the element exists, src, data_src and href are its attributes,  *)
(* and raises is the probe (1 title, 2 brand, 3 image, 4 link) at which    *)
(* the element raises, 0 if none does.                                     *)
(***************************************************************************)
\* a or b or ... over element handles or attribute values: the first truthy one
RECURSIVE FirstTruthy(_)
FirstTruthy(xs) ==
  IF Len(xs) = 0 THEN None
  ELSE IF xs[1] # None /\ Len(xs[1]) > 0 THEN xs[1] ELSE FirstTruthy(Tail(xs))

\* the first element handle of a fallback chain (a handle is truthy whatever its text)
RECURSIVE FirstElement(_)
FirstElement(xs) ==
  IF Len(xs) = 0 THEN None
  ELSE IF xs[1] # None THEN xs[1] ELSE FirstElement(Tail(xs))

TitleOf(e) == IF FirstElement(e.title) # None THEN Strip(FirstElement(e.title)) ELSE NA

BrandOf(e) == IF FirstElement(e.brand) # None THEN Strip(FirstElement(e.brand)) ELSE NA

ImageOf(e) ==
  IF ~e.img THEN NA
  ELSE With(FirstTruthy(<<e.src, e.data_src, NA>>), LAMBDA u :
         IF StartsWith(u, <<"/", "/">>) THEN <<"h", "t", "t", "p", "s", ":">> \o u ELSE u)

UrlOf(e) ==
  IF e.a /\ e.href # None /\ Len(e.href) > 0
  THEN IF StartsWith(e.href, <<"/", "/">>) THEN <<"h", "t", "t", "p", "s", ":">> \o e.href
       ELSE IF StartsWith(e.href, <<"/">>) THEN <<"h", "t", "t", "p", "s", ":", "/", "/", "s", "h", "o", "p", "m", "y", ".", "u", "s">> \o e.href
       ELSE e.href
  ELSE NA

\* product_data once the probes before probe k have run
ProductData(e, k) ==
  [title |-> IF k > 1 THEN TitleOf(e) ELSE NA,
   brand |-> IF k > 2 THEN BrandOf(e) ELSE NA,
   image_url |-> IF k > 3 THEN ImageOf(e) ELSE NA,
   product_url |-> IF k > 4 THEN UrlOf(e) ELSE NA]

\* line 223: any(value != 'N/A' for value in product_data.values())
AnyField(d) == d.title # NA \/ d.brand # NA \/ d.image_url # NA \/ d.product_url # NA

\* the loop body with the record appended as far as it was filled when the
\* element raised
ProcessKeepPartial(data, e) ==
  LET d == ProductData(e, IF e.raises > 0 THEN e.raises ELSE 5)
  IN IF AnyField(d) THEN Append(data, d) ELSE data

\* lines 186-229: products_data after one element
ProcessProduct(data, e) ==
  IF e.raises > 0 THEN data
  ELSE IF AnyField(ProductData(e, 5)) THEN Append(data, ProductData(e, 5)) ELSE data

(***************************************************************************)
(* save_to_csv (lines 246-263): the rows kept, and the file written.       *)
(***************************************************************************)
fieldnames == <<"title", "brand", "image_url", "product_url">>

RECURSIVE Dedup(_, _, _)
Dedup(products_data, seen, unique_products) ==
  IF Len(products_data) = 0 THEN unique_products
  ELSE LET product == products_data[1]
           key == <<product.title, product.product_url>>
       IN IF key \notin seen
          THEN Dedup(Tail(products_data), seen \cup {key}, Append(unique_products, product))
          ELSE Dedup(Tail(products_data), seen, unique_products)

\* the loop of lines 249-254 keyed on the title alone
UniqueByTitle(products_data) ==
  LET first == {i \in 1..Len(products_data) :
                  \A j \in 1..(i - 1) : products_data[j].title # products_data[i].title}
      RECURSIVE Pick(_)
      Pick(i) == IF i > Len(products_data) THEN <<>>
                 ELSE (IF i \in first THEN <<products_data[i]>> ELSE <<>>) \o Pick(i + 1)
  IN Pick(1)

UniqueProducts(products_data) == Dedup(products_data, {}, <<>>)

\* csv.DictWriter: one row per record, its fields in fieldnames order
Row(product) == [i \in 1..Len(fieldnames) |-> product[fieldnames[i]]]

\* writer.writeheader(): the field names as text
HeaderRow == <<<<"t", "i", "t", "l", "e">>, <<"b", "r", "a", "n", "d">>, <<"i", "m", "a", "g", "e", "_", "u", "r", "l">>, <<"p", "r", "o", "d", "u", "c", "t", "_", "u", "r", "l">>>>

\* the file's lines: the header, then the rows
CsvFile(unique_products) ==
  <<HeaderRow>> \o [i \in 1..Len(unique_products) |-> Row(unique_products[i])]

(***************************************************************************)
(* Bounds of the model.                                                    *)
(***************************************************************************)
\* the most elements query_selector_all returns
MaxProducts == 2

\* the page heights document.body.scrollHeight can measure: 1..MaxHeight
MaxHeight == 2

\* the longest sequence of records handed to save_to_csv on its own
MaxRecords == 3

(***************************************************************************)
(* The answers the page can give for one product element.                  *)
(***************************************************************************)
TitleProbes == {<<None, None, None>>, <<None, None, <<" ", "A", " ">>>>}

BrandProbes == {<<None, None>>, <<None, <<"X">>>>}

ImgProbes == {[img |-> FALSE, src |-> None, data_src |-> None],
              [img |-> TRUE, src |-> None, data_src |-> None],
              [img |-> TRUE, src |-> None, data_src |-> <<"/", "/", "i", ".", "c", "o", "/", "a">>]}

LinkProbes == {[a |-> FALSE, href |-> None],
               [a |-> TRUE, href |-> None],
               [a |-> TRUE, href |-> <<"/", "p">>],
               [a |-> TRUE, href |-> <<"/", "/", "s", ".", "c", "o", "/", "p", "?", "u", "t", "m", "=", "1">>]}

AllAnswers ==
  {[title |-> t, brand |-> b, img |-> i.img, src |-> i.src, data_src |-> i.data_src,
    a |-> l.a, href |-> l.href, raises |-> r] :
     t \in TitleProbes, b \in BrandProbes, i \in ImgProbes, l \in LinkProbes, r \in 0..4}

\* a probe that raises, and the probes after it, which never run, answer nothing
Elements ==
  {e \in AllAnswers :
     /\ e.raises \in 1..1 => e.title = <<None, None, None>>
     /\ e.raises \in 1..2 => e.brand = <<None, None>>
     /\ e.raises \in 1..3 => ~e.img /\ e.src = None /\ e.data_src = None
     /\ e.raises \in 1..4 => ~e.a /\ e.href = None}

NoElement ==
  [title |-> <<None, None, None>>, brand |-> <<None, None>>, img |-> FALSE, src |-> None,
   data_src |-> None, a |-> FALSE, href |-> None, raises |-> 0]

(***************************************************************************)
(* The state of one run of main.                                           *)
(***************************************************************************)
VARIABLES
  pc,               \* where the run is
  browser,          \* "none", "open", or "close_called" once browser.close() was called
  exc,              \* the exception in flight with its __context__ chain, each named by
                    \* the step that raised it; <<>> when there is none
  loaded,           \* TRUE once page.goto has succeeded
  attempt,          \* retry_with_backoff's loop variable
  delay,            \* retry_with_backoff's delay, 0 before the first failure
  selector,         \* the index in selectors of the candidate being probed
  product_selector, \* the index of the adopted selector, 0 for None
  last_height, new_height,
  products,         \* the number of elements query_selector_all returned
  idx,              \* the elements processed so far
  product,          \* the answers of the element processed last
  products_data,    \* the records collected (kept after the function's exit, to say
                    \* what had been extracted)
  returned,         \* TRUE once scrape_shopmy_collection has returned to main
  main_products,    \* main's products: what scrape_shopmy_collection returned
  screenshot,       \* TRUE once error_screenshot.png was written
  file,             \* the lines of shopmy_products.csv, <<>> while it is not written
  removed,          \* the duplicate count save_to_csv logged, -1 before
  input, output, output2, step   \* the pure functions' argument, results and phase

vars == <<pc, browser, exc, loaded, attempt, delay, selector, product_selector, last_height,
          new_height, products, idx, product, products_data, returned, main_products,
          screenshot, file, removed, input, output, output2, step>>

runVars == <<pc, browser, exc, loaded, attempt, delay, selector, product_selector, last_height,
             new_height, products, idx, product, products_data, returned, main_products,
             screenshot, file, removed>>

funVars == <<input, output, output2, step>>

RunAt(p) ==
  /\ pc = p /\ browser = "none" /\ exc = <<>> /\ loaded = FALSE
  /\ attempt = 0 /\ delay = 0 /\ selector = 0 /\ product_selector = 0
  /\ last_height = 0 /\ new_height = 0
  /\ products = 0 /\ idx = 0 /\ product = NoElement /\ products_data = <<>>
  /\ returned = FALSE /\ main_products = <<>>
  /\ screenshot = FALSE /\ file = <<>> /\ removed = -1

InitFun == input = <<>> /\ output = <<>> /\ output2 = <<>> /\ step = "none"

Init == RunAt("main") /\ InitFun

\* locals of scrape_shopmy_collection, gone when it returns or raises
Locals == <<selector, product_selector, last_height, new_height, products, idx, product>>

LocalsGone ==
  /\ selector' = 0 /\ product_selector' = 0 /\ last_height' = 0 /\ new_height' = 0
  /\ products' = 0 /\ idx' = 0 /\ product' = NoElement

\* a step inside the try of line 139 raises e: the handler of line 231 runs next
Raise(e) == pc' = "screenshot" /\ exc' = Append(exc, e)

\* line 126 with the bound off by one
LastAttemptLate(n) == n = max_retries

\* line 126: attempt == max_retries - 1
LastAttempt(n) == n = max_retries - 1

\* line 242 with the test dropped
NothingToSaveNever(data) == FALSE

\* line 242: not products_data
NothingToSave(data) == Len(data) = 0

\* main (line 273) calls scrape_shopmy_collection; sync_playwright starts
Main ==
  /\ pc = "main"
  /\ pc' = "launch"
  /\ UNCHANGED <<browser, exc, loaded, attempt, delay, Locals, products_data, returned, main_products, screenshot, file, removed, funVars>>

\* line 136: p.chromium.launch; a failure leaves the with block with no browser
Launch ==
  /\ pc = "launch"
  /\ \/ pc' = "new_page" /\ browser' = "open" /\ UNCHANGED exc
     \/ pc' = "main_except" /\ exc' = Append(exc, "launch") /\ UNCHANGED browser
  /\ UNCHANGED <<loaded, attempt, delay, Locals, products_data, returned, main_products,
                 screenshot, file, removed, funVars>>

\* line 137: browser.new_page, before the try: a failure skips the finally
NewPage ==
  /\ pc = "new_page"
  /\ \/ pc' = "goto" /\ UNCHANGED exc
     \/ pc' = "main_except" /\ exc' = Append(exc, "new_page")
  /\ UNCHANGED <<browser, loaded, attempt, delay, Locals, products_data, returned, main_products,
                 screenshot, file, removed, funVars>>

\* lines 122-127: one call of load_page by retry_with_backoff
Goto ==
  /\ pc = "goto"
  /\ \/ /\ pc' = "probe" /\ loaded' = TRUE /\ selector' = 1
        /\ attempt' = 0 /\ delay' = 0 /\ UNCHANGED exc
     \/ /\ LastAttempt(attempt)
        /\ Raise("goto") /\ attempt' = 0 /\ delay' = 0 /\ UNCHANGED <<loaded, selector>>
     \/ /\ ~LastAttempt(attempt)
        /\ delay' = Backoff(attempt)
        /\ pc' = "sleep" /\ UNCHANGED <<exc, loaded, attempt, selector>>
  /\ UNCHANGED <<browser, product_selector, last_height, new_height, products, idx, product,
                 products_data, returned, main_products, screenshot, file, removed, funVars>>

\* line 130: time.sleep(delay), then the next iteration of the for loop
Sleep ==
  /\ pc = "sleep"
  /\ attempt' = attempt + 1
  /\ pc' = "goto"
  /\ UNCHANGED <<browser, exc, loaded, delay, Locals, products_data, returned, main_products,
                 screenshot, file, removed, funVars>>

\* lines 153-164: one wait_for_selector; a timeout moves to the next candidate
Probe ==
  /\ pc = "probe"
  /\ \/ product_selector' = selector /\ pc' = "settle" /\ UNCHANGED <<exc, selector>>
     \/ /\ selector < Len(selectors)
        /\ selector' = selector + 1 /\ UNCHANGED <<pc, exc, product_selector>>
     \/ /\ selector = Len(selectors)
        /\ Raise("no_selector") /\ UNCHANGED <<selector, product_selector>>
     \/ Raise("probe") /\ UNCHANGED <<selector, product_selector>>
  /\ UNCHANGED <<browser, loaded, attempt, delay, last_height, new_height, products, idx, product,
                 products_data, returned, main_products,
                 screenshot, file, removed, funVars>>

\* line 167: the settle delay
Settle ==
  /\ pc = "settle"
  /\ \/ pc' = "measure" /\ UNCHANGED exc
     \/ Raise("settle")
  /\ UNCHANGED <<browser, loaded, attempt, delay, Locals, products_data, returned, main_products,
                 screenshot, file, removed, funVars>>

\* line 170: the first height
Measure ==
  /\ pc = "measure"
  /\ \/ \E h \in 1..MaxHeight : last_height' = h /\ pc' = "scroll" /\ UNCHANGED exc
     \/ Raise("measure") /\ UNCHANGED last_height
  /\ UNCHANGED <<browser, loaded, attempt, delay, selector, product_selector, new_height, products, idx,
                 product, products_data, returned, main_products,
                 screenshot, file, removed, funVars>>

\* lines 172-177: one iteration of the while loop
Scroll ==
  /\ pc = "scroll"
  /\ \/ \E h \in 1..MaxHeight :
          /\ new_height' = h
          /\ IF HeightStable(h, last_height)
             THEN pc' = "query_all" /\ UNCHANGED last_height
             ELSE pc' = "scroll" /\ last_height' = h
          /\ UNCHANGED exc
     \/ Raise("scroll") /\ UNCHANGED <<last_height, new_height>>
  /\ UNCHANGED <<browser, loaded, attempt, delay, selector, product_selector, products, idx, product,
                 products_data, returned, main_products,
                 screenshot, file, removed, funVars>>

\* line 180: query_selector_all
QueryAll ==
  /\ pc = "query_all"
  /\ \/ \E n \in 0..MaxProducts : products' = n /\ pc' = "extract" /\ UNCHANGED exc
     \/ Raise("query_all") /\ UNCHANGED products
  /\ UNCHANGED <<browser, loaded, attempt, delay, selector, product_selector, last_height, new_height,
                 idx, product, products_data, returned, main_products,
                 screenshot, file, removed, funVars>>

\* lines 182-229: the body of the for loop on the next element
Extract ==
  /\ pc = "extract" /\ idx < products
  /\ \E e \in Elements :
       /\ product' = e
       /\ products_data' = ProcessProduct(products_data, e)
  /\ idx' = idx + 1
  /\ UNCHANGED <<pc, browser, exc, loaded, attempt, delay, selector, product_selector,
                 last_height, new_height, products, returned, main_products, screenshot,
                 file, removed, funVars>>

\* the for loop is exhausted: the finally of line 236 runs next
EndExtract ==
  /\ pc = "extract" /\ idx = products
  /\ pc' = "close"
  /\ UNCHANGED <<browser, exc, loaded, attempt, delay, Locals, products_data, returned, main_products, screenshot, file, removed, funVars>>

\* lines 232-234: the handler logs, takes the screenshot and re-raises; a
\* failure of the screenshot replaces the exception in flight
Screenshot ==
  /\ pc = "screenshot"
  /\ \/ screenshot' = TRUE /\ UNCHANGED exc
     \/ exc' = Append(exc, "screenshot") /\ UNCHANGED screenshot
  /\ pc' = "close"
  /\ UNCHANGED <<browser, loaded, attempt, delay, Locals, products_data, returned, main_products,
                 file, removed, funVars>>

\* lines 236-239: browser.close() in the finally, then the return or the
\* exception reaches main
Close ==
  /\ pc = "close"
  /\ browser' = "close_called"
  /\ \/ /\ exc = <<>>
        /\ pc' = "save" /\ returned' = TRUE /\ main_products' = products_data
        /\ UNCHANGED exc
     \/ /\ exc # <<>>
        /\ pc' = "main_except" /\ UNCHANGED <<exc, returned, main_products>>
     \/ /\ pc' = "main_except" /\ exc' = Append(exc, "close")
        /\ UNCHANGED <<returned, main_products>>
  /\ LocalsGone
  /\ UNCHANGED <<loaded, attempt, delay, products_data, screenshot, file, removed, funVars>>

\* line 274: save_to_csv(products)
Save ==
  /\ pc = "save"
  /\ IF NothingToSave(main_products)
     THEN UNCHANGED <<file, removed>>
     ELSE /\ file' = CsvFile(UniqueProducts(main_products))
          /\ removed' = Len(main_products) - Len(UniqueProducts(main_products))
  /\ pc' = "done"
  /\ UNCHANGED <<browser, exc, loaded, attempt, delay, Locals, products_data, returned,
                 main_products, screenshot, funVars>>

\* lines 275-277: main logs and re-raises
MainExcept ==
  /\ pc = "main_except"
  /\ pc' = "failed"
  /\ UNCHANGED <<browser, exc, loaded, attempt, delay, Locals, products_data, returned, main_products, screenshot, file, removed, funVars>>

Next ==
  \/ Main \/ Launch \/ NewPage \/ Goto \/ Sleep \/ Probe \/ Settle \/ Measure
  \/ Scroll \/ QueryAll \/ Extract \/ EndExtract \/ Screenshot \/ Close \/ Save
  \/ MainExcept

Spec == Init /\ [][Next]_vars

(***************************************************************************)
(* clean_url on its own: the argument is drawn from URLs put together from *)
(* an origin, a path and up to MaxParams query fields, bare or wrapped in  *)
(* one of the three affiliate redirects (the target percent-encoded, as    *)
(* the networks send it); the function is applied once, then to its own    *)
(* result.                                                                 *)
(***************************************************************************)
\* the most query fields of a drawn URL
MaxParams == 2

Origins == {<<"h", "t", "t", "p", "s", ":", "/", "/", "s", ".", "c", "o">>, <<"H", "T", "T", "P", ":", "/", "/", "S", "h", "o", "p", ".", "G", "a", "p", ".", "c", "o", "m">>, <<"h", "t", "t", "p", "s", ":", "/", "/", "[", "s", ".", "c", "o">>}

Paths == {<<"/", "p">>, <<"/", "a", "%", "2", "0", "b">>, <<"/", "a", "%", "2", "5", "2", "0", "b">>, <<"/", "a", ";", "b">>}

QueryFields == {<<"v", "a", "r", "i", "a", "n", "t", "=", "r", "e", "d">>, <<"u", "t", "m", "_", "s", "o", "u", "r", "c", "e", "=", "i", "g">>, <<"C", "o", "l", "o", "r", "=", "b", "%", "2", "6", "w">>, <<"s", "i", "z", "e", "=">>, <<"s", "i", "z", "e", "=", "a", "%", "2", "5", "2", "B", "b">>}

RECURSIVE QueriesOf(_)
QueriesOf(n) ==
  IF n = 0 THEN {<<>>}
  ELSE QueriesOf(n - 1) \cup
       {IF Len(q) = 0 THEN f ELSE q \o <<"&">> \o f :
          q \in {r \in QueriesOf(n - 1) : Len(r) > 0 \/ n = 1}, f \in QueryFields}

PlainUrls ==
  {o \o p \o (IF Len(q) = 0 THEN <<>> ELSE <<"?">> \o q) :
     o \in Origins, p \in Paths, q \in QueriesOf(MaxParams)}

\* urllib.parse.quote(s, safe=''): what a network does to the target it wraps
HexUpper == <<"0", "1", "2", "3", "4", "5", "6", "7", "8", "9", "A", "B", "C", "D", "E", "F">>

QuoteChar(c) ==
  IF IsAlpha(c) \/ IsDigit(c) \/ c \in {"_", ".", "-", "~"} THEN <<c>>
  ELSE <<"%", HexUpper[(Ord(c) \div 16) + 1], HexUpper[(Ord(c) % 16) + 1]>>

RECURSIVE Quote(_)
Quote(s) == IF Len(s) = 0 THEN <<>> ELSE QuoteChar(s[1]) \o Quote(Tail(s))

WrappedUrls ==
  {<<"h", "t", "t", "p", "s", ":", "/", "/", "a", "p", "i", ".", "s", "h", "o", "p", "m", "y", ".", "u", "s", "/", "a", "p", "i", "/", "r", "e", "d", "i", "r", "e", "c", "t", "_", "c", "l", "i", "c", "k", "?", "i", "d", "=", "7", "&", "u", "r", "l", "=">> \o Quote(u) : u \in PlainUrls}
  \cup {<<"h", "t", "t", "p", "s", ":", "/", "/", "w", "w", "w", ".", "a", "n", "r", "d", "o", "e", "z", "r", "s", ".", "n", "e", "t", "/", "c", "l", "i", "c", "k", "-", "1", "-", "2", "?", "s", "i", "d", "=", "x", "&", "u", "r", "l", "=">> \o Quote(u) : u \in PlainUrls}
  \cup {<<"h", "t", "t", "p", "s", ":", "/", "/", "c", "l", "i", "c", "k", ".", "l", "i", "n", "k", "s", "y", "n", "e", "r", "g", "y", ".", "c", "o", "m", "/", "d", "e", "e", "p", "l", "i", "n", "k", "?", "i", "d", "=", "x", "&", "m", "u", "r", "l", "=">> \o Quote(u) \o <<"&", "u", "1", "=", "y">> : u \in PlainUrls}
  \cup {<<"h", "t", "t", "p", "s", ":", "/", "/", "a", "p", "i", ".", "s", "h", "o", "p", "m", "y", ".", "u", "s", "/", "a", "p", "i", "/", "r", "e", "d", "i", "r", "e", "c", "t", "_", "c", "l", "i", "c", "k", "?", "i", "d", "=", "7">>, <<"h", "t", "t", "p", "s", ":", "/", "/", "c", "l", "i", "c", "k", ".", "l", "i", "n", "k", "s", "y", "n", "e", "r", "g", "y", ".", "c", "o", "m", "/", "d", "e", "e", "p", "l", "i", "n", "k", "?", "i", "d", "=", "x">>}

UrlInputs == PlainUrls \cup WrappedUrls

InitUrl ==
  /\ RunAt("idle")
  /\ input \in UrlInputs /\ output = <<>> /\ output2 = <<>> /\ step = "arg"

CleanOnce ==
  /\ step = "arg"
  /\ output' = clean_url(input)
  /\ step' = "once"
  /\ UNCHANGED <<runVars, input, output2>>

CleanTwice ==
  /\ step = "once"
  /\ output2' = clean_url(output)
  /\ step' = "twice"
  /\ UNCHANGED <<runVars, input, output>>

NextUrl == CleanOnce \/ CleanTwice

SpecUrl == InitUrl /\ [][NextUrl]_vars

(***************************************************************************)
(* extract_brand_from_url_and_title on its own.                            *)
(***************************************************************************)
BrandSchemes == {<<"h", "t", "t", "p", "s", ":", "/", "/">>, <<>>}

BrandHosts == {<<"w", "w", "w", ".", "g", "a", "p", ".", "c", "o", "m">>, <<"s", "h", "o", "p", ".", "e", "x", "a", "m", "p", "l", "e", ".", "c", "o", "m">>, <<"S", "T", "A", "U", "D", ".", "G", "a", "p", ".", "c", "o">>, <<"w", "w", "w", ".", "k", "h", "a", "i", "t", "e", ".", "c", "o", "m">>, <<"s", "i", "n", "g", "a", "p", "o", "r", "e", ".", "e", "x", "a", "m", "p", "l", "e">>}

BrandPaths == {<<>>, <<"/", "i", "t", "e", "m", "/", "4", "2">>, <<"/", "b", "r", "a", "n", "d", "s", "/", "J", "i", "m", "m", "y", "-", "C", "h", "o", "o", "/", "h", "e", "e", "l", "s">>, <<"/", "g", "a", "p", "/", "k", "h", "a", "i", "t", "e", "-", "d", "r", "e", "s", "s">>}

BrandTitles == {None, NA, <<>>, <<"A", "c", "m", "e", " ", "C", "o", " ", "|", " ", "C", "l", "a", "s", "s", "i", "c", " ", "T", "o", "t", "e">>, <<"R", "e", "f", "o", "r", "m", "a", "t", "i", "o", "n", " ", "|", " ", "G", "a", "p", " ", "d", "r", "e", "s", "s">>,
                <<"t", "h", "e", " ", "R", "E", "F", "O", "R", "M", "A", "T", "I", "O", "N", " ", "d", "r", "e", "s", "s">>, <<"C", "l", "a", "s", "s", "i", "c", " ", "T", "o", "t", "e">>}

BrandInputs == {[url |-> s \o h \o p, title |-> t] :
                  s \in BrandSchemes, h \in BrandHosts, p \in BrandPaths, t \in BrandTitles}

InitBrand ==
  /\ RunAt("idle")
  /\ input \in BrandInputs /\ output = <<>> /\ output2 = <<>> /\ step = "arg"

InferBrand ==
  /\ step = "arg"
  /\ output' = extract_brand_from_url_and_title(input.url, input.title)
  /\ step' = "inferred"
  /\ UNCHANGED <<runVars, input, output2>>

NextBrand == InferBrand

SpecBrand == InitBrand /\ [][NextBrand]_vars

(***************************************************************************)
(* save_to_csv on its own, on every sequence of up to MaxRecords records.  *)
(***************************************************************************)
SaveRecords ==
  {[title |-> t, brand |-> b, image_url |-> NA, product_url |-> u] :
     t \in {<<"A">>, <<"B">>}, b \in {<<"X">>, NA}, u \in {<<"h", "t", "t", "p", "s", ":", "/", "/", "s", ".", "c", "o", "/", "p">>, NA}}

RECURSIVE SeqsUpTo(_, _)
SeqsUpTo(S, n) ==
  IF n = 0 THEN {<<>>}
  ELSE SeqsUpTo(S, n - 1) \cup {Append(s, x) : s \in {r \in SeqsUpTo(S, n - 1) : Len(r) = n - 1}, x \in S}

InitSave ==
  /\ pc = "save" /\ browser = "close_called" /\ exc = <<>> /\ loaded = TRUE
  /\ attempt = 0 /\ delay = 0 /\ selector = 0 /\ product_selector = 0
  /\ last_height = 0 /\ new_height = 0
  /\ products = 0 /\ idx = 0 /\ product = NoElement
  /\ main_products \in SeqsUpTo(SaveRecords, MaxRecords)
  /\ products_data = main_products
  /\ returned = TRUE /\ screenshot = FALSE /\ file = <<>> /\ removed = -1
  /\ InitFun

NextSave == Save

SpecSave == InitSave /\ [][NextSave]_vars

(***************************************************************************)
(* Properties.                                                             *)
(***************************************************************************)
Written == file # <<>>

\* C1: in one run of main the output file is written if and only if the
\* harvest returned without a fatal failure and returned at least one record:
\* a run that fails never writes it, whatever had been extracted, and a run
\* whose harvest is empty ends without it.
FileIffHarvest ==
  /\ Written => returned /\ Len(main_products) > 0
  /\ pc = "done" => (Written <=> Len(main_products) > 0)
  /\ exc # <<>> => ~Written /\ ~returned
  /\ pc = "failed" => ~Written

\* C1 witness: a run failed after records had been extracted, and no file exists
FailedAfterExtraction == pc = "failed" /\ Len(products_data) > 0 /\ ~Written

\* whether record i of d is the first of d with its (title, product_url) pair
FirstOfPair(d, i) ==
  \A j \in 1..(i - 1) : d[j].title # d[i].title \/ d[j].product_url # d[i].product_url

\* the n-th smallest member of the set of positions S
Nth(S, n) == CHOOSE i \in S : Cardinality({j \in S : j < i}) = n - 1

\* C2: for a non-empty input the rows save_to_csv writes are exactly the input
\* records that are the first with their (title, product_url) pair, in input
\* order; no two rows share a pair; the reported count is the input length
\* minus the number of rows.
DedupKeepsFirst ==
  pc = "done" /\ Len(main_products) > 0 =>
    LET d == main_products
        rows == Tail(file)
        kept == {i \in 1..Len(d) : FirstOfPair(d, i)}
    IN /\ file[1] = HeaderRow
       /\ Len(rows) = Cardinality(kept)
       /\ \A n \in 1..Len(rows) :
            rows[n] = <<d[Nth(kept, n)].title, d[Nth(kept, n)].brand,
                        d[Nth(kept, n)].image_url, d[Nth(kept, n)].product_url>>
       /\ \A m, n \in 1..Len(rows) : m # n => rows[m][1] # rows[n][1] \/ rows[m][4] # rows[n][4]
       /\ removed = Len(d) - Len(rows)

\* C2 witness: a later record with the pair of an earlier one and another brand
\* was dropped
DuplicateDropped ==
  /\ pc = "done" /\ removed >= 1
  /\ \E i, j \in 1..Len(main_products) :
       /\ i < j
       /\ main_products[i].title = main_products[j].title
       /\ main_products[i].product_url = main_products[j].product_url
       /\ main_products[i].brand # main_products[j].brand
  /\ Len(file) = 1 + Len(main_products) - removed

\* the states after the handler of line 231 has taken over
FailurePath == {"screenshot", "close", "main_except", "failed"}

\* C3: navigation is attempted at most 3 times in one harvest, never again
\* after the attempt that succeeds, and the failure of the third attempt
\* propagates as fatal: nothing is probed, scrolled or extracted after it.
NavigationRetryBounded ==
  /\ [](pc \in {"goto", "sleep"} => attempt + 1 <= 3 /\ ~loaded)
  /\ [](loaded => pc \notin {"goto", "sleep"})
  /\ [][pc = "goto" /\ attempt + 1 = 3 /\ ~loaded' => pc' = "screenshot" /\ exc' = <<"goto">>]_vars
  /\ [](Len(exc) > 0 /\ exc[1] = "goto" =>
          /\ pc \in FailurePath /\ ~loaded
          /\ selector = 0 /\ product_selector = 0 /\ last_height = 0 /\ new_height = 0
          /\ idx = 0 /\ products_data = <<>>)

\* C3 witness: the third failure has reached main
NavigationFailedFatally == pc = "failed" /\ Len(exc) > 0 /\ exc[1] = "goto"

\* C4: on every path out of scrape_shopmy_collection after the browser was
\* launched, browser.close() has been called before control is back in main.
ClosedOnEveryExit ==
  pc \in {"save", "done", "main_except", "failed"} /\ browser # "none" => browser = "close_called"

\* C5: the scroll loop exits at the first iteration whose height after the
\* scroll equals the height before it, and scrolls again, with no cap,
\* whenever the two differ.
ScrollStopsOnEqualHeights ==
  [][pc = "scroll" /\ exc' = exc =>
       IF new_height' = last_height
       THEN pc' = "query_all" /\ last_height' = last_height
       ELSE pc' = "scroll" /\ last_height' = new_height']_vars

\* C5 witness: a measurement differed from the one before, and the loop goes on
ScrollingOn == pc = "scroll" /\ new_height # 0 /\ last_height = new_height

\* the canonical forms of the links an element can carry
CanonicalLinks == {clean_url(UrlOf(e)) : e \in {x \in Elements : UrlOf(x) # NA}}

\* C6: every product_url that save_to_csv receives from main is the
\* canonicalized form (clean_url) of the link extracted from the page element.
UrlsCanonicalized ==
  pc = "save" =>
    \A i \in 1..Len(main_products) :
      main_products[i].product_url = NA \/ main_products[i].product_url \in CanonicalLinks

\* C7: clean_url(clean_url(u)) = clean_url(u) for every input URL u.
CleanUrlIdempotent == step = "twice" => output2 = output

\* the table entries whose slug occurs in text
SlugsIn(text) == {i \in 1..Len(known_brands) : Contains(Lower(text), known_brands[i].key)}

\* C8: when the host holds a known slug the result is the name mapped to a
\* slug of the host, whatever the path and the title hold; else when the path
\* holds one the result is the name mapped to a slug of the path, whatever
\* the title holds; the title decides only when neither holds any.
BrandPriority ==
  step = "inferred" =>
    LET host == SlugsIn(urlparse(input.url).netloc)
        path == SlugsIn(urlparse(input.url).path)
    IN /\ host # {} => output \in {known_brands[i].name : i \in host}
       /\ host = {} /\ path # {} => output \in {known_brands[i].name : i \in path}
       /\ output \notin {known_brands[i].name : i \in host \cup path} => host = {} /\ path = {}

\* C8 witness: the host's slug won over another slug in the path and a title
\* with a | delimiter
HostBeatsPathAndTitle ==
  /\ step = "inferred"
  /\ SlugsIn(urlparse(input.url).netloc) # {}
  /\ SlugsIn(urlparse(input.url).path) \ SlugsIn(urlparse(input.url).netloc) # {}
  /\ Min(SlugsIn(urlparse(input.url).path)) \notin SlugsIn(urlparse(input.url).netloc)
  /\ input.title # None /\ Contains(input.title, <<"|">>)
  /\ output = known_brands[Min(SlugsIn(urlparse(input.url).netloc))].name

\* C9 as stated: after the k-th failed attempt, for each k up to 3, the retry
\* sleeps 1s * 2^(k-1): 1s, 2s, 4s.
BackoffAfterEveryFailure ==
  [][pc = "goto" /\ ~loaded' => pc' = "sleep" /\ delay' = Pow2(attempt)]_vars

\* C9 amended: the retry sleeps 1s after the first failed attempt and 2s after
\* the second; after the third it sleeps nothing and raises, so that no delay
\* of 4s occurs.
BackoffBetweenAttempts ==
  /\ [][pc = "goto" /\ ~loaded' =>
          /\ attempt = 0 => pc' = "sleep" /\ delay' = 1
          /\ attempt = 1 => pc' = "sleep" /\ delay' = 2
          /\ attempt = 2 => pc' # "sleep" /\ delay' = 0]_vars
  /\ [](delay \in {0, 1, 2})
  /\ [](pc = "sleep" => delay = 1 \/ delay = 2)

\* C9 witness: the second delay is being slept
SecondDelaySlept == pc = "sleep" /\ attempt = 1 /\ delay = 2

\* the record an element yields when none of its probes raises
RecordOf(e) ==
  [title |-> TitleOf(e), brand |-> BrandOf(e), image_url |-> ImageOf(e), product_url |-> UrlOf(e)]

\* C10: each element whose extraction raises nothing and yields a field other
\* than the sentinel adds exactly its record at the end of the sequence; an
\* element whose fields are all the sentinel, and an element that raises, add
\* nothing; the loop goes on to the next element in either case and ends only
\* when every element has been processed.
ExtractionKeepsGoodElements ==
  /\ [][pc = "extract" /\ idx' = idx + 1 =>
          LET e == product'
              r == RecordOf(e)
              good == /\ e.raises = 0
                      /\ {r.title, r.brand, r.image_url, r.product_url} # {NA}
          IN /\ good => products_data' = Append(products_data, r)
             /\ ~good => products_data' = products_data
             /\ pc' = "extract" /\ exc' = <<>>]_vars
  /\ [][pc = "extract" /\ pc' # "extract" => idx = products /\ pc' = "close" /\ exc' = <<>>]_vars
  /\ [](returned => Len(main_products) <= MaxProducts)

\* C10 witness: of two elements the one that raised was skipped and the
\* other is the only record returned
SkippedOneKeptOther ==
  /\ pc = "extract" /\ products = 2 /\ idx = 2
  /\ product.raises = 4 /\ product.title # <<None, None, None>>
  /\ Len(products_data) = 1
====
